---------------------------- MODULE Spec2Model ----------------------------
(***************************************************************************)
(* A model of mcp_riksdagen_server.py: the search-parameter holder and its *)
(* query mapping, the archive client and the lifespan hook around it, the  *)
(* riksdagen_search tool and the riksdagen_create_url_list tool.           *)
(*                                                                         *)
(* Representation.  Python's None is the empty tuple and a present value v *)
(* is the one-element tuple <<v>> (Some(v)).  A Python dict is a function  *)
(* whose DOMAIN is its key set.  Strings that the program converts (the    *)
(* format argument, document ids, the hit-count field) are sequences of    *)
(* one-character strings, so that lowercasing, parsing and concatenation   *)
(* are computed; strings the program only passes along are TLA+ strings.   *)
(***************************************************************************)
EXTENDS Integers, Sequences, FiniteSets, TLC

VARIABLES
    \* process lifecycle and the shared HTTP client
    phase, client, opened, closes,
    \* one riksdagen_search invocation per call slot
    pc, limit, sent, reply, outcome,
    \* RiksdagenSearchParams / to_query_params
    ppc, given, params, query,
    \* riksdagen_create_url_list
    upc, document_ids, format, format_extension, urls, result,
    \* the per-entry normalization inside riksdagen_search
    npc, doc, normalized

lifeVars  == <<phase, client, opened, closes, pc, limit, sent, reply, outcome>>
paramVars == <<ppc, given, params, query>>
urlVars   == <<upc, document_ids, format, format_extension, urls, result>>
normVars  == <<npc, doc, normalized>>
vars      == <<lifeVars, paramVars, urlVars, normVars>>

-----------------------------------------------------------------------------
(* Python values *)

None == <<>>
Some(v) == <<v>>
EmptyDict == [k \in {} |-> ""]

\* dict.get(key, default)
PyGet(d, key, default) == IF key \in DOMAIN d THEN d[key] ELSE default

\* d[key] = value
PyPut(d, key, value) ==
    [k \in DOMAIN d \cup {key} |-> IF k = key THEN value ELSE d[k]]

\* seq[:k], Python's slice: a negative k counts from the end
PySliceTo(seq, k) ==
    LET n == Len(seq)
        stop == IF k < 0 THEN (IF n + k < 0 THEN 0 ELSE n + k)
                ELSE (IF k > n THEN n ELSE k)
    IN  SubSeq(seq, 1, stop)

-----------------------------------------------------------------------------
(* RiksdagenSearchParams *)

\* the dataclass fields, in declaration order (the order of __dict__)
FieldOrder ==
    << "sok", "doktyp", "rm", "from_date", "tom", "ts", "bet", "tempbet",
       "nr", "org", "iid", "webbtv", "talare", "exakt", "planering",
       "sort", "sortorder", "rapport", "utformat", "a" >>

Fields == {FieldOrder[i] : i \in DOMAIN FieldOrder}

FieldDefault_noformat(f) ==
    CASE f = "sort"      -> Some("rel")
      [] f = "sortorder" -> Some("desc")
      [] OTHER           -> None

\* the default each field is declared with
FieldDefault(f) ==
    CASE f = "sort"      -> Some("rel")
      [] f = "sortorder" -> Some("desc")
      [] f = "utformat"  -> Some("json")
      [] OTHER           -> None

\* the generated __init__: a keyword given by the caller, else the default
RiksdagenSearchParams(kwargs) ==
    [f \in Fields |-> IF f \in DOMAIN kwargs THEN kwargs[f] ELSE FieldDefault(f)]

\* the loop body of to_query_params, over the first i fields
RECURSIVE QueryParamsUpTo(_, _)
QueryParamsUpTo(self, i) ==
    IF i = 0 THEN EmptyDict
    ELSE LET acc   == QueryParamsUpTo(self, i - 1)
             key   == FieldOrder[i]
             value == self[key]
         IN  IF value # None
             THEN IF key = "from_date"
                  THEN PyPut(acc, "from", value[1])
                  ELSE PyPut(acc, key, value[1])
             ELSE acc

RECURSIVE QueryParamsNoRename(_, _)
QueryParamsNoRename(self, i) ==
    IF i = 0 THEN EmptyDict
    ELSE LET acc   == QueryParamsNoRename(self, i - 1)
             key   == FieldOrder[i]
             value == self[key]
         IN  IF value # None THEN PyPut(acc, key, value[1]) ELSE acc

to_query_params_norename(self) == QueryParamsNoRename(self, Len(FieldOrder))

to_query_params(self) == QueryParamsUpTo(self, Len(FieldOrder))

-----------------------------------------------------------------------------
(* The parameter holder on its own: construct, map, discard. *)

\* how many fields a caller sets in one construction
MaxSetFields == 2

\* the values a caller gives a field: None, the empty string, a text
ParamValues == {None, Some(""), Some("v")}

RECURSIVE FieldSetsUpTo(_)
FieldSetsUpTo(k) ==
    IF k = 0 THEN {{}}
    ELSE LET P == FieldSetsUpTo(k - 1)
         IN  P \cup {s \cup {f} : s \in P, f \in Fields}

KeywordArgs == UNION {[S -> ParamValues] : S \in FieldSetsUpTo(MaxSetFields)}

ParamIdle ==
    /\ ppc = "none"
    /\ given = EmptyDict
    /\ params = RiksdagenSearchParams(EmptyDict)
    /\ query = EmptyDict

Construct ==
    /\ ppc = "none"
    /\ \E kwargs \in KeywordArgs :
          /\ given' = kwargs
          /\ params' = RiksdagenSearchParams(kwargs)
    /\ ppc' = "constructed"
    /\ UNCHANGED query

BuildQuery ==
    /\ ppc = "constructed"
    /\ query' = to_query_params(params)
    /\ ppc' = "built"
    /\ UNCHANGED <<given, params>>

Discard ==
    /\ ppc = "built"
    /\ ppc' = "none"
    /\ given' = EmptyDict
    /\ params' = RiksdagenSearchParams(EmptyDict)
    /\ query' = EmptyDict

-----------------------------------------------------------------------------
(* Character strings *)

UpperChars ==
    << "A", "B", "C", "D", "E", "F", "G", "H", "I", "J", "K", "L", "M",
       "N", "O", "P", "Q", "R", "S", "T", "U", "V", "W", "X", "Y", "Z" >>

LowerChars ==
    << "a", "b", "c", "d", "e", "f", "g", "h", "i", "j", "k", "l", "m",
       "n", "o", "p", "q", "r", "s", "t", "u", "v", "w", "x", "y", "z" >>

LowerChar(c) ==
    IF \E i \in DOMAIN UpperChars : UpperChars[i] = c
    THEN LowerChars[CHOOSE i \in DOMAIN UpperChars : UpperChars[i] = c]
    ELSE c

\* str.lower()
Lower(s) == [i \in DOMAIN s |-> LowerChar(s[i])]

S_json == << "j", "s", "o", "n" >>
S_html == << "h", "t", "m", "l" >>
S_text == << "t", "e", "x", "t" >>
S_pdf  == << "p", "d", "f" >>

\* "https://data.riksdagen.se/dokument/"
DokumentUrlPrefix ==
    << "h", "t", "t", "p", "s", ":", "/", "/", "d", "a", "t", "a", ".",
       "r", "i", "k", "s", "d", "a", "g", "e", "n", ".", "s", "e",
       "/", "d", "o", "k", "u", "m", "e", "n", "t", "/" >>

-----------------------------------------------------------------------------
(* riksdagen_create_url_list *)

SupportedFormats_pdf == {S_json, S_html, S_text, S_pdf}

\* the list the format is validated against
SupportedFormats == {S_json, S_html, S_text}

DocumentUrl_htmlpage(doc_id, extension) ==
    IF extension = S_json
    THEN DokumentUrlPrefix \o doc_id \o <<".">> \o extension
    ELSE DokumentUrlPrefix \o doc_id \o <<"/">> \o extension

\* both branches of the loop body build the same f-string
DocumentUrl(doc_id, extension) ==
    IF extension = S_json
    THEN DokumentUrlPrefix \o doc_id \o <<".">> \o extension
    ELSE DokumentUrlPrefix \o doc_id \o <<".">> \o extension

UrlEntry(doc_id, extension) ==
    [id |-> doc_id, url |-> DocumentUrl(doc_id, extension)]

Returned(value) == [kind |-> "returned", error |-> "", value |-> Some(value)]
Raised(error)   == [kind |-> "raised", error |-> error, value |-> None]
NoResult        == [kind |-> "none", error |-> "", value |-> None]

\* how many ids one call is given
MaxIds == 2

DocIds == { << "H", "8", "C", "1" >>, << "X" >> }

RECURSIVE SeqsUpTo(_, _)
SeqsUpTo(S, n) ==
    IF n = 0 THEN {<<>>}
    ELSE LET P == SeqsUpTo(S, n - 1)
         IN  P \cup {Append(s, x) : s \in P, x \in S}

FormatArgs ==
    { S_json, S_html, S_text,
      << "J", "S", "O", "N" >>, << "H", "T", "M", "L" >>, << "T", "e", "X", "t" >>,
      << "H", "t", "m", "l" >>,
      S_pdf, << "P", "D", "F" >>, << "x", "m", "l" >>, <<>>,
      << "j", "s", "o", "n", "l" >>, << " ", "j", "s", "o", "n" >> }

UrlIdle ==
    /\ upc = "idle"
    /\ document_ids = <<>>
    /\ format = S_json
    /\ format_extension = <<>>
    /\ urls = <<>>
    /\ result = NoResult

\* the call, up to format_extension = format.lower()
CreateUrlListCall ==
    /\ upc = "idle"
    /\ \E ids \in SeqsUpTo(DocIds, MaxIds), fmt \in FormatArgs :
          /\ document_ids' = ids
          /\ format' = fmt
          /\ format_extension' = Lower(fmt)
    /\ upc' = "validate"
    /\ UNCHANGED <<urls, result>>

\* the validation: ValueError, or urls = [] and into the loop
CreateUrlListValidate ==
    /\ upc = "validate"
    /\ IF format_extension \notin SupportedFormats
       THEN /\ result' = Raised("ValueError")
            /\ upc' = "done"
            /\ UNCHANGED urls
       ELSE /\ urls' = <<>>
            /\ upc' = "loop"
            /\ UNCHANGED result
    /\ UNCHANGED <<document_ids, format, format_extension>>

\* one iteration of the loop over document_ids
CreateUrlListAppend ==
    /\ upc = "loop"
    /\ Len(urls) < Len(document_ids)
    /\ urls' = Append(urls, UrlEntry(document_ids[Len(urls) + 1], format_extension))
    /\ UNCHANGED <<upc, document_ids, format, format_extension, result>>

\* the return statement
CreateUrlListReturn ==
    /\ upc = "loop"
    /\ Len(urls) = Len(document_ids)
    /\ result' = Returned([urls |-> urls, format |-> format_extension,
                           count |-> Len(urls)])
    /\ upc' = "done"
    /\ UNCHANGED <<document_ids, format, format_extension, urls>>

\* the runtime hands the result on; the next call starts afresh
CreateUrlListFinish ==
    /\ upc = "done"
    /\ upc' = "idle"
    /\ document_ids' = <<>>
    /\ format' = S_json
    /\ format_extension' = <<>>
    /\ urls' = <<>>
    /\ result' = NoResult

-----------------------------------------------------------------------------
(* int(str): surrounding whitespace, an optional sign, decimal digits with *)
(* single underscores between digits.                                      *)

WhitespaceChars == {" ", "\t", "\n", "\r"}

DigitChars == << "0", "1", "2", "3", "4", "5", "6", "7", "8", "9" >>

IsDigit(c) == \E i \in DOMAIN DigitChars : DigitChars[i] = c

DigitValue(c) == (CHOOSE i \in DOMAIN DigitChars : DigitChars[i] = c) - 1

RECURSIVE LStrip(_)
LStrip(s) ==
    IF Len(s) > 0 /\ s[1] \in WhitespaceChars THEN LStrip(Tail(s)) ELSE s

RECURSIVE RStrip(_)
RStrip(s) ==
    IF Len(s) > 0 /\ s[Len(s)] \in WhitespaceChars
    THEN RStrip(SubSeq(s, 1, Len(s) - 1))
    ELSE s

Strip(s) == RStrip(LStrip(s))

HasSign(t) == Len(t) > 0 /\ t[1] \in {"+", "-"}

Unsigned(t) == IF HasSign(t) THEN Tail(t) ELSE t

WellFormedDigits(b) ==
    /\ Len(b) > 0
    /\ \A i \in DOMAIN b :
          \/ IsDigit(b[i])
          \/ /\ b[i] = "_"
             /\ 1 < i /\ i < Len(b)
             /\ IsDigit(b[i - 1]) /\ IsDigit(b[i + 1])

RECURSIVE DigitsValue(_, _)
DigitsValue(b, i) ==
    IF i = 0 THEN 0
    ELSE IF b[i] = "_" THEN DigitsValue(b, i - 1)
    ELSE 10 * DigitsValue(b, i - 1) + DigitValue(b[i])

\* whether int(s) returns rather than raising ValueError
CanParseInt(s) == WellFormedDigits(Unsigned(Strip(s)))

IntValue(s) ==
    LET t == Strip(s)
        b == Unsigned(t)
        v == DigitsValue(b, Len(b))
    IN  IF HasSign(t) /\ t[1] = "-" THEN 0 - v ELSE v

-----------------------------------------------------------------------------
(* riksdagen_search: normalization of the raw result *)

NormalizeDoc_swapped(d) ==
    [ id                 |-> PyGet(d, "id", ""),
      title              |-> PyGet(d, "titel", ""),
      type               |-> PyGet(d, "doktyp", ""),
      document_type      |-> PyGet(d, "typ", ""),
      date               |-> PyGet(d, "datum", ""),
      published          |-> PyGet(d, "publicerad", ""),
      parliamentary_year |-> PyGet(d, "rm", ""),
      organization       |-> PyGet(d, "organ", ""),
      text_url           |-> PyGet(d, "dokument_url_text", ""),
      html_url           |-> PyGet(d, "dokument_url_html", ""),
      status             |-> PyGet(d, "status", "") ]

\* the dict appended for one raw entry
NormalizeDoc(d) ==
    [ id                 |-> PyGet(d, "id", ""),
      title              |-> PyGet(d, "titel", ""),
      type               |-> PyGet(d, "typ", ""),
      document_type      |-> PyGet(d, "doktyp", ""),
      date               |-> PyGet(d, "datum", ""),
      published          |-> PyGet(d, "publicerad", ""),
      parliamentary_year |-> PyGet(d, "rm", ""),
      organization       |-> PyGet(d, "organ", ""),
      text_url           |-> PyGet(d, "dokument_url_text", ""),
      html_url           |-> PyGet(d, "dokument_url_html", ""),
      status             |-> PyGet(d, "status", "") ]

\* the documents list: empty unless both keys are there, else the slice
ExtractDocuments(results, lim) ==
    IF /\ "dokumentlista" \in DOMAIN results
       /\ "dokument" \in DOMAIN results["dokumentlista"]
    THEN LET raw_docs == results["dokumentlista"]["dokument"]
             head     == PySliceTo(raw_docs, lim)
         IN  [i \in 1..Len(head) |-> NormalizeDoc(head[i])]
    ELSE <<>>

HitCountField_empty(results) ==
    PyGet(PyGet(results, "dokumentlista", EmptyDict), "@traffar", <<>>)

\* results.get("dokumentlista", {}).get("@traffar", "0")
HitCountField(results) ==
    PyGet(PyGet(results, "dokumentlista", EmptyDict), "@traffar", <<"0">>)

\* the rest of riksdagen_search once search_documents has returned results
SearchResponse(results, lim) ==
    LET documents == ExtractDocuments(results, lim)
        traffar   == HitCountField(results)
    IN  IF CanParseInt(traffar)
        THEN Returned([total_hits |-> IntValue(traffar), documents |-> documents])
        ELSE Raised("ValueError")

-----------------------------------------------------------------------------
(* RiksdagenClient.search_documents *)

HttpFailures ==
    { [kind |-> "transport", body |-> EmptyDict],
      [kind |-> "status",    body |-> EmptyDict],
      [kind |-> "badjson",   body |-> EmptyDict] }

HttpOk(body) == [kind |-> "ok", body |-> body]

NoReply == [kind |-> "none", body |-> EmptyDict]

search_documents_swallow(r) ==
    IF r.kind = "ok" THEN Returned(r.body) ELSE Returned(EmptyDict)

\* what search_documents does with the reply to its GET: httpx.HTTPError
\* (transport, raise_for_status) becomes Exception; json() may raise too
search_documents(r) ==
    IF r.kind \in {"transport", "status"}
    THEN Raised("Exception: Error searching Riksdagen documents")
    ELSE IF r.kind = "badjson"
    THEN Raised("JSONDecodeError")
    ELSE Returned(r.body)

\* riksdagen_search after the await
SearchOutcome(r, lim) ==
    LET results == search_documents(r)
    IN  IF results.kind = "raised" THEN results
        ELSE SearchResponse(results.value[1], lim)

\* the keyword arguments riksdagen_search constructs its params with
SearchKwargs(args) ==
    [f \in {"sok", "doktyp", "rm", "from_date", "tom", "sort", "sortorder",
            "utformat"} |->
        IF f = "utformat" THEN Some("json") ELSE args[f]]

GetRequest(p) ==
    [method |-> "GET", path |-> "/dokumentlista/", params |-> to_query_params(p)]

-----------------------------------------------------------------------------
(* Inputs of the search model *)

\* how many raw entries a document container holds at most
MaxDocs == 2

\* limit ranges over -MaxLimit .. MaxLimit
MaxLimit == 3

\* how many riksdagen_search invocations the runtime has in flight at once
MaxCalls == 2

DocA ==
    [k \in {"id", "titel", "typ", "doktyp", "datum", "publicerad", "rm",
            "organ", "dokument_url_text", "dokument_url_html", "status"} |-> k]

DocB == [k \in {"id", "titel"} |-> IF k = "id" THEN "H8C2" ELSE "Motion"]

DocC == EmptyDict

RawDocs == {DocA, DocB, DocC}

HitStrings ==
    { << "4", "2" >>, << "0" >>, << " ", "7", "\n" >>, << "-", "3" >>,
      << "1", "_", "0" >>, << "a", "b", "c" >>, << "4", ".", "2" >>,
      << "1", "_", "_", "0" >>, << "+", " ", "5" >> }

\* a dokumentlista object: each of its two keys may be absent
DokumentLists(hits, lists) ==
    {EmptyDict}
      \cup {("@traffar" :> h) : h \in hits}
      \cup {("dokument" :> l) : l \in lists}
      \cup {("@traffar" :> h) @@ ("dokument" :> l) : h \in hits, l \in lists}

\* a parsed JSON body: the dokumentlista key may be absent
Payloads(hits, lists) ==
    {EmptyDict} \cup {("dokumentlista" :> d) : d \in DokumentLists(hits, lists)}

AllPayloads == Payloads(HitStrings, SeqsUpTo(RawDocs, MaxDocs))

FewPayloads ==
    Payloads({<< "4", "2" >>, << "a", "b", "c" >>}, {<<>>, <<DocA, DocB>>})

ToolArgs ==
    { [sok |-> None, doktyp |-> None, rm |-> None, from_date |-> None,
       tom |-> None, sort |-> Some("rel"), sortorder |-> Some("desc")],
      [sok |-> Some("skatt"), doktyp |-> Some("mot"), rm |-> None,
       from_date |-> Some("2024-01-01"), tom |-> None,
       sort |-> Some("datum"), sortorder |-> Some("asc")] }

-----------------------------------------------------------------------------
(* The process: module load, the lifespan hook, the search tool *)

LifeInit(calls) ==
    /\ phase = "unloaded"
    /\ client = "none"
    /\ opened = 0
    /\ closes = 0
    /\ pc = [c \in calls |-> "idle"]
    /\ limit = [c \in calls |-> 10]
    /\ sent = [c \in calls |-> <<>>]
    /\ reply = [c \in calls |-> NoReply]
    /\ outcome = [c \in calls |-> NoResult]

callVars == <<pc, limit, sent, reply, outcome>>

\* importing the module: RiksdagenClient() builds the httpx.AsyncClient,
\* FastMCP(...) registers the lifespan and the tools
ModuleLoad ==
    /\ phase = "unloaded"
    /\ phase' = "loaded"
    /\ client' = "open"
    /\ opened' = opened + 1
    /\ UNCHANGED <<closes, callVars>>

\* mcp.run() enters riksdagen_lifespan, which yields at once
LifespanEnter ==
    /\ phase = "loaded"
    /\ phase' = "running"
    /\ UNCHANGED <<client, opened, closes, callVars>>

\* RiksdagenClient.close(), run by the finally clause
CloseClient ==
    /\ client' = "closed"
    /\ closes' = closes + 1

\* the server ends normally: every handler has finished, the finally runs
LifespanExit ==
    /\ phase = "running"
    /\ \A c \in DOMAIN pc : pc[c] \in {"idle", "done"}
    /\ phase' = "stopped"
    /\ CloseClient
    /\ UNCHANGED <<opened, callVars>>

LifespanExitOnError_nofinally ==
    /\ phase = "running"
    /\ \E c \in DOMAIN pc : pc[c] \in {"awaiting", "replied"}
    /\ phase' = "stopped"
    /\ pc' = [c \in DOMAIN pc |->
                IF pc[c] \in {"awaiting", "replied"} THEN "cancelled" ELSE pc[c]]
    /\ UNCHANGED <<client, closes, opened, limit, sent, reply, outcome>>

\* the server ends with an error: the handlers still running are cancelled,
\* the exception passes through the yield and the finally runs
LifespanExitOnError ==
    /\ phase = "running"
    /\ \E c \in DOMAIN pc : pc[c] \in {"awaiting", "replied"}
    /\ phase' = "stopped"
    /\ pc' = [c \in DOMAIN pc |->
                IF pc[c] \in {"awaiting", "replied"} THEN "cancelled" ELSE pc[c]]
    /\ CloseClient
    /\ UNCHANGED <<opened, limit, sent, reply, outcome>>

\* riksdagen_search up to its await: the params, then client.get(...)
Invoke(c, limits) ==
    /\ phase = "running"
    /\ pc[c] = "idle"
    /\ \E args \in ToolArgs, lim \in limits :
          LET p == RiksdagenSearchParams(SearchKwargs(args))
          IN  /\ limit' = [limit EXCEPT ![c] = lim]
              /\ IF client = "open"
                 THEN /\ sent' = [sent EXCEPT ![c] = Append(@, GetRequest(p))]
                      /\ pc' = [pc EXCEPT ![c] = "awaiting"]
                      /\ UNCHANGED outcome
                 ELSE /\ outcome' = [outcome EXCEPT ![c] = Raised("RuntimeError")]
                      /\ pc' = [pc EXCEPT ![c] = "done"]
                      /\ UNCHANGED sent
    /\ UNCHANGED <<phase, client, opened, closes, reply>>

\* the archive answers, or the transport fails
HttpReply(c, payloads) ==
    /\ pc[c] = "awaiting"
    /\ \E r \in HttpFailures \cup {HttpOk(b) : b \in payloads} :
          reply' = [reply EXCEPT ![c] = r]
    /\ pc' = [pc EXCEPT ![c] = "replied"]
    /\ UNCHANGED <<phase, client, opened, closes, limit, sent, outcome>>

\* riksdagen_search from the await to its return or raise
Resume(c) ==
    /\ pc[c] = "replied"
    /\ outcome' = [outcome EXCEPT ![c] = SearchOutcome(reply[c], limit[c])]
    /\ pc' = [pc EXCEPT ![c] = "done"]
    /\ UNCHANGED <<phase, client, opened, closes, limit, sent, reply>>

\* the runtime hands the result to its caller; nothing of the call is kept
Deliver(c) ==
    /\ pc[c] = "done"
    /\ phase = "running"
    /\ pc' = [pc EXCEPT ![c] = "idle"]
    /\ limit' = [limit EXCEPT ![c] = 10]
    /\ sent' = [sent EXCEPT ![c] = <<>>]
    /\ reply' = [reply EXCEPT ![c] = NoReply]
    /\ outcome' = [outcome EXCEPT ![c] = NoResult]
    /\ UNCHANGED <<phase, client, opened, closes>>

-----------------------------------------------------------------------------
(* Normalization of one raw entry on its own *)

ExpectedAttrs ==
    {"id", "titel", "typ", "doktyp", "datum", "publicerad", "rm", "organ",
     "dokument_url_text", "dokument_url_html", "status"}

\* a raw entry: any subset of the expected attributes and of one more
RawEntries == UNION {[S -> {"x"}] : S \in SUBSET (ExpectedAttrs \cup {"debattnamn"})}

\* the value an entry carries under attribute k
Valued(e) == [k \in DOMAIN e |-> k]

NormIdle ==
    /\ npc = "idle"
    /\ doc = EmptyDict
    /\ normalized = NormalizeDoc(EmptyDict)

NormalizePick ==
    /\ npc = "idle"
    /\ \E e \in RawEntries : doc' = Valued(e)
    /\ npc' = "picked"
    /\ UNCHANGED normalized

NormalizeApply ==
    /\ npc = "picked"
    /\ normalized' = NormalizeDoc(doc)
    /\ npc' = "done"
    /\ UNCHANGED doc

NormalizeNext ==
    /\ npc = "done"
    /\ npc' = "idle"
    /\ doc' = EmptyDict
    /\ normalized' = NormalizeDoc(EmptyDict)

-----------------------------------------------------------------------------
(* Specifications *)

Calls == 1..MaxCalls

Limits == (0 - MaxLimit)..MaxLimit

Init == LifeInit(Calls) /\ ParamIdle /\ UrlIdle /\ NormIdle

\* the process with concurrent searches
Next ==
    \/ ModuleLoad /\ UNCHANGED <<paramVars, urlVars, normVars>>
    \/ LifespanEnter /\ UNCHANGED <<paramVars, urlVars, normVars>>
    \/ LifespanExit /\ UNCHANGED <<paramVars, urlVars, normVars>>
    \/ LifespanExitOnError /\ UNCHANGED <<paramVars, urlVars, normVars>>
    \/ \E c \in Calls : Invoke(c, {-1, 1}) /\ UNCHANGED <<paramVars, urlVars, normVars>>
    \/ \E c \in Calls : HttpReply(c, FewPayloads) /\ UNCHANGED <<paramVars, urlVars, normVars>>
    \/ \E c \in Calls : Resume(c) /\ UNCHANGED <<paramVars, urlVars, normVars>>
    \/ \E c \in Calls : Deliver(c) /\ UNCHANGED <<paramVars, urlVars, normVars>>

Spec == Init /\ [][Next]_vars

InitSearch == LifeInit({1}) /\ ParamIdle /\ UrlIdle /\ NormIdle

\* one search at a time, over every payload and limit
NextSearch ==
    \/ ModuleLoad /\ UNCHANGED <<paramVars, urlVars, normVars>>
    \/ LifespanEnter /\ UNCHANGED <<paramVars, urlVars, normVars>>
    \/ LifespanExit /\ UNCHANGED <<paramVars, urlVars, normVars>>
    \/ LifespanExitOnError /\ UNCHANGED <<paramVars, urlVars, normVars>>
    \/ Invoke(1, Limits) /\ UNCHANGED <<paramVars, urlVars, normVars>>
    \/ HttpReply(1, AllPayloads) /\ UNCHANGED <<paramVars, urlVars, normVars>>
    \/ Resume(1) /\ UNCHANGED <<paramVars, urlVars, normVars>>
    \/ Deliver(1) /\ UNCHANGED <<paramVars, urlVars, normVars>>

SpecSearch == InitSearch /\ [][NextSearch]_vars

InitParams == LifeInit({}) /\ ParamIdle /\ UrlIdle /\ NormIdle

NextParams ==
    \/ Construct /\ UNCHANGED <<lifeVars, urlVars, normVars>>
    \/ BuildQuery /\ UNCHANGED <<lifeVars, urlVars, normVars>>
    \/ Discard /\ UNCHANGED <<lifeVars, urlVars, normVars>>

SpecParams == InitParams /\ [][NextParams]_vars

NextUrl ==
    \/ CreateUrlListCall /\ UNCHANGED <<lifeVars, paramVars, normVars>>
    \/ CreateUrlListValidate /\ UNCHANGED <<lifeVars, paramVars, normVars>>
    \/ CreateUrlListAppend /\ UNCHANGED <<lifeVars, paramVars, normVars>>
    \/ CreateUrlListReturn /\ UNCHANGED <<lifeVars, paramVars, normVars>>
    \/ CreateUrlListFinish /\ UNCHANGED <<lifeVars, paramVars, normVars>>

SpecUrl == InitParams /\ [][NextUrl]_vars

NextNorm ==
    \/ NormalizePick /\ UNCHANGED <<lifeVars, paramVars, urlVars>>
    \/ NormalizeApply /\ UNCHANGED <<lifeVars, paramVars, urlVars>>
    \/ NormalizeNext /\ UNCHANGED <<lifeVars, paramVars, urlVars>>

SpecNorm == InitParams /\ [][NextNorm]_vars

-----------------------------------------------------------------------------
(* Vocabulary of the properties *)

Done(c) == pc[c] = "done"

Answered(c) == Done(c) /\ reply[c].kind = "ok"

HasContainer(body) ==
    /\ "dokumentlista" \in DOMAIN body
    /\ "dokument" \in DOMAIN body["dokumentlista"]

ContainerEmptyOrAbsent(body) ==
    HasContainer(body) => body["dokumentlista"]["dokument"] = <<>>

HitFieldMissing(body) ==
    \/ "dokumentlista" \notin DOMAIN body
    \/ "@traffar" \notin DOMAIN body["dokumentlista"]

\* the integer each parsable hit-count string of the inputs stands for
HitOracle ==
    (<< "4", "2" >> :> 42) @@ (<< "0" >> :> 0) @@ (<< " ", "7", "\n" >> :> 7)
      @@ (<< "-", "3" >> :> 0 - 3) @@ (<< "1", "_", "0" >> :> 10)

Min(a, b) == IF a < b THEN a ELSE b

Max(a, b) == IF a < b THEN b ELSE a

-----------------------------------------------------------------------------
(* riksdagen_search *)

\* C1: a search that returns over a container of n entries returns exactly
\* max(0, min(limit, n)) documents, the normalized first entries in upstream
\* order, for every integer limit, and total_hits is the parsed hit count.
C1_LimitBoundsDocuments ==
    \A c \in DOMAIN pc :
        (Answered(c) /\ HasContainer(reply[c].body) /\ outcome[c].kind = "returned") =>
            LET raw_docs == reply[c].body["dokumentlista"]["dokument"]
                k        == Max(0, Min(limit[c], Len(raw_docs)))
                response == outcome[c].value[1]
            IN  /\ Len(response.documents) = k
                /\ \A i \in 1..k : response.documents[i] = NormalizeDoc(raw_docs[i])
                /\ response.total_hits = IntValue(HitCountField(reply[c].body))

\* C2: total_hits is the integer value of a parsable hit-count field and 0
\* when the field is missing or unparsable; the unparsable case does not
\* raise.
C2_UnparsableDegradesToZero ==
    \A c \in DOMAIN pc :
        Answered(c) =>
            /\ outcome[c].kind = "returned"
            /\ outcome[c].value[1].total_hits =
                  IF HitFieldMissing(reply[c].body) THEN 0
                  ELSE LET h == reply[c].body["dokumentlista"]["@traffar"]
                       IN  IF h \in DOMAIN HitOracle THEN HitOracle[h] ELSE 0

C4_OneRequestErrorPropagates ==
    \A c \in DOMAIN pc :
        /\ pc[c] = "idle" => sent[c] = <<>>
        /\ pc[c] # "idle" =>
              /\ Len(sent[c]) = 1
              /\ sent[c][1].method = "GET"
              /\ sent[c][1].path = "/dokumentlista/"
        /\ (Done(c) /\ reply[c].kind \in {"transport", "status"}) =>
              /\ outcome[c].kind = "raised"
              /\ outcome[c].value = None

C4_Witness ==
    \E c, d \in DOMAIN pc :
        /\ Done(c) /\ reply[c].kind = "transport" /\ outcome[c].kind = "raised"
        /\ Done(d) /\ reply[d].kind = "status" /\ outcome[d].kind = "raised"

-----------------------------------------------------------------------------
(* The shared HTTP client *)

\* C9 as stated: the client is acquired once, by the startup hook and not
\* earlier, and released exactly once at shutdown, also on the error path;
\* no search uses it before it is acquired or after it is released.
C9_AcquiredByStartupHook ==
    /\ opened <= 1
    /\ client # "none" => phase \in {"running", "stopped"}
    /\ closes <= 1
    /\ phase = "stopped" => (client = "closed" /\ closes = 1)
    /\ \A c \in DOMAIN pc : pc[c] \in {"awaiting", "replied"} => client = "open"

\* C9 as amended: the client is acquired once, when the module is loaded
\* (before the startup hook runs), and released exactly once at shutdown by
\* the lifespan hook, also when the server ends with an error; it is open
\* whenever a search is in flight and no search finds it closed.
C9_AcquiredAtLoadReleasedOnce ==
    /\ opened = (IF phase = "unloaded" THEN 0 ELSE 1)
    /\ phase = "unloaded" => client = "none"
    /\ phase \in {"loaded", "running"} => (client = "open" /\ closes = 0)
    /\ phase = "stopped" => (client = "closed" /\ closes = 1)
    /\ \A c \in DOMAIN pc :
          /\ pc[c] \in {"awaiting", "replied"} => client = "open"
          /\ outcome[c].error # "RuntimeError"

\* the server ended with an error after one search failed and while another
\* was in flight, and the client is closed
C9_Witness ==
    /\ phase = "stopped"
    /\ client = "closed"
    /\ closes = 1
    /\ \E c, d \in DOMAIN pc :
          /\ pc[c] = "cancelled"
          /\ Done(d) /\ outcome[d].kind = "raised"

-----------------------------------------------------------------------------
(* to_query_params *)

CanonicalKey(f) == IF f = "from_date" THEN "from" ELSE f

\* C5 as stated: the mapping holds a field exactly when its value is
\* non-null and non-empty, under its canonical key, unchanged.
C5_NonEmptyFieldsOnly ==
    ppc = "built" =>
        \A f \in Fields :
            (params[f] # None /\ params[f] # Some("")) <=>
                CanonicalKey(f) \in DOMAIN query

\* C5 as amended: the mapping holds a field exactly when its value is not
\* null (an empty string is present and is emitted), unchanged, under the
\* field's own name, except from_date, whose key is "from"; "from_date" is
\* never a key.
C5_NonNullFieldsOnly ==
    ppc = "built" =>
        /\ \A f \in Fields :
              /\ params[f] # None <=> CanonicalKey(f) \in DOMAIN query
              /\ params[f] # None => query[CanonicalKey(f)] = params[f][1]
        /\ DOMAIN query \subseteq {CanonicalKey(f) : f \in Fields}
        /\ "from_date" \notin DOMAIN query

\* a mapping built from from_date and an empty search term
C5_Witness ==
    /\ ppc = "built"
    /\ given = [f \in {"from_date", "sok"} |->
                  IF f = "sok" THEN Some("") ELSE Some("v")]
    /\ query["from"] = "v"
    /\ query["sok"] = ""

\* C10 as stated: with defaults only, the mapping is exactly sort, sortorder
\* and utformat with the values "relevance", "descending" and "json".
C10_DefaultsSpelledOut ==
    (ppc = "built" /\ given = EmptyDict) =>
        query = [sort |-> "relevance", sortorder |-> "descending", utformat |-> "json"]

\* C10 as amended: with defaults only, the mapping is exactly sort,
\* sortorder and utformat with the values "rel", "desc" and "json".
C10_DefaultsOnly ==
    (ppc = "built" /\ given = EmptyDict) =>
        query = [sort |-> "rel", sortorder |-> "desc", utformat |-> "json"]

C10_Witness == ppc = "built" /\ given = EmptyDict /\ DOMAIN query # {}

-----------------------------------------------------------------------------
(* riksdagen_create_url_list *)

UpperOf(c) ==
    IF \E i \in DOMAIN LowerChars : LowerChars[i] = c
    THEN UpperChars[CHOOSE i \in DOMAIN LowerChars : LowerChars[i] = c]
    ELSE c

\* s is the lower-case word w in some casing
IsCasingOf(s, w) ==
    /\ Len(s) = Len(w)
    /\ \A i \in DOMAIN w : s[i] \in {w[i], UpperOf(w[i])}

Recognized == {S_json, S_html, S_text}

FormatRecognized == \E w \in Recognized : IsCasingOf(format, w)

\* C6: a format that is no casing of json, html or text makes the call fail
\* with an invalid-argument error before any id is processed: no entry is
\* ever built and nothing is returned.
C6_BadFormatFailsFirst ==
    (upc # "idle" /\ ~FormatRecognized) =>
        /\ urls = <<>>
        /\ upc \in {"validate", "done"}
        /\ upc = "done" => result = Raised("ValueError")
        /\ upc = "validate" => result = NoResult

C6_Witness ==
    /\ upc = "done"
    /\ format = S_pdf
    /\ document_ids = << << "X" >> >>
    /\ result.kind = "raised"
    /\ urls = <<>>

\* C7: a format that is a casing of json, html or text returns the
\* lower-case format, a count equal to the number of ids, and one entry per
\* id in input order, duplicates kept, each url being
\* {base}/dokument/{id}.{format}.
C7_OneUrlPerId ==
    (upc = "done" /\ FormatRecognized) =>
        /\ result.kind = "returned"
        /\ LET r == result.value[1]
               w == CHOOSE x \in Recognized : IsCasingOf(format, x)
           IN  /\ r.format = w
               /\ r.count = Len(document_ids)
               /\ Len(r.urls) = Len(document_ids)
               /\ \A i \in DOMAIN document_ids :
                     r.urls[i] = [id  |-> document_ids[i],
                                  url |-> DokumentUrlPrefix \o document_ids[i]
                                            \o <<".">> \o w]

C7_Witness ==
    /\ upc = "done"
    /\ format = << "H", "T", "M", "L" >>
    /\ document_ids = << << "X" >>, << "X" >> >>
    /\ result.kind = "returned"
    /\ result.value[1].count = 2

-----------------------------------------------------------------------------
(* Normalization *)

NormalizedFields ==
    { <<"id", "id">>, <<"title", "titel">>, <<"type", "typ">>,
      <<"document_type", "doktyp">>, <<"date", "datum">>,
      <<"published", "publicerad">>, <<"parliamentary_year", "rm">>,
      <<"organization", "organ">>, <<"text_url", "dokument_url_text">>,
      <<"html_url", "dokument_url_html">>, <<"status", "status">> }

\* C8: whichever attributes a raw entry carries, its normalized form has the
\* same eleven fields, each the entry's corresponding attribute when it has
\* it and the empty string when it does not.
C8_NormalizationTotal ==
    npc = "done" =>
        /\ DOMAIN normalized = {fa[1] : fa \in NormalizedFields}
        /\ Cardinality(DOMAIN normalized) = 11
        /\ \A fa \in NormalizedFields :
              normalized[fa[1]] = IF fa[2] \in DOMAIN doc THEN doc[fa[2]] ELSE ""

\* an entry with no attribute at all, normalized to eleven empty strings
C8_Witness ==
    /\ npc = "done"
    /\ doc = EmptyDict
    /\ \A f \in DOMAIN normalized : normalized[f] = ""

=============================================================================
